---- MODULE Spec2Model ----
(***************************************************************************)
(* Model of the two resolver speed testers of this repository:             *)
(*   src/dns_ipv4.py  DNSSpeedTester  (plain UDP queries, variant "udp")    *)
(*   src/doh_ipv4.py  DoHSpeedTester  (DNS over HTTPS,    variant "doh")    *)
(* One run is modelled thread by thread: the pool's worker threads execute *)
(* the per-resolver sampling tasks one probe at a time, the main thread    *)
(* collects the finished futures, returns the result mapping and prints    *)
(* the ranked summary.  Times are exact rationals <<n, d>>; float('inf')   *)
(* is the pair <<1, 0>>.                                                   *)
(***************************************************************************)
EXTENDS Integers, Sequences, FiniteSets, TLC

\* ------------------------------------------------------------------ bounds
\* Number of configured resolvers (len(dns_servers) / len(doh_servers)).
NumResolvers == 2
\* Longest test-domain list drawn.
MaxDomains == 2
\* Largest num_queries / domain_count drawn.
MaxCount == 3
\* Smallest num_queries drawn is -NegCount (argparse type=int accepts it).
NegCount == 1

\* -------------------------------------------------------- program constants
\* sorted_results[:10] in DNSSpeedTester.print_summary.
TopN == 10
Resolvers == 1..NumResolvers
Variants == {"udp", "doh"}
Counts == (0 - NegCount)..MaxCount

\* A domain is the sequence of the byte lengths of its labels
\* (domain.split('.')): "abc.com" is <<3, 3>>.
DomainPool == {<<3, 3>>, <<256, 3>>}
\* Elapsed times in ms a successful probe can measure.
Latencies == {10, 15, 20}

\* ------------------------------------------------------------------ numbers
Abs(x) == IF x < 0 THEN 0 - x ELSE x

RECURSIVE GCD(_, _)
GCD(a, b) == IF b = 0 THEN a ELSE GCD(b, a % b)

\* float('inf')
Inf == <<1, 0>>

\* n / d as a float, d # 0: the normalised fraction.
Rat(n, d) ==
    LET g == GCD(Abs(n), Abs(d))
        s == IF d < 0 THEN 0 - 1 ELSE 1
    IN  <<(s * n) \div g, (s * d) \div g>>

IsInf(x) == x[2] = 0

\* x < y on floats (inf is above every finite value and not below itself).
Less(x, y) ==
    IF IsInf(x) THEN FALSE
    ELSE IF IsInf(y) THEN TRUE
    ELSE x[1] * y[2] < y[1] * x[2]

Leq(x, y) == ~Less(y, x)

RECURSIVE SumSeq(_)
SumSeq(s) == IF s = <<>> THEN 0 ELSE Head(s) + SumSeq(Tail(s))

RECURSIVE MinSeq(_)
MinSeq(s) ==
    IF Len(s) = 1 THEN s[1]
    ELSE LET m == MinSeq(Tail(s)) IN IF s[1] <= m THEN s[1] ELSE m

RECURSIVE MaxSeq(_)
MaxSeq(s) ==
    IF Len(s) = 1 THEN s[1]
    ELSE LET m == MaxSeq(Tail(s)) IN IF s[1] >= m THEN s[1] ELSE m

\* Insert x into the ascending sequence s, after the elements equal to it.
RECURSIVE InsertAsc(_, _)
InsertAsc(s, x) ==
    IF s = <<>> THEN <<x>>
    ELSE IF x < Head(s) THEN <<x>> \o s
    ELSE <<Head(s)>> \o InsertAsc(Tail(s), x)

RECURSIVE SortAsc(_)
SortAsc(s) ==
    IF s = <<>> THEN <<>>
    ELSE InsertAsc(SortAsc(SubSeq(s, 1, Len(s) - 1)), s[Len(s)])

\* statistics.mean
Mean(s) == Rat(SumSeq(s), Len(s))

\* statistics.median: the middle of the sorted data, the mean of the two
\* middle values when their number is even.
Median(s) ==
    LET t == SortAsc(s)
        n == Len(t)
    IN  IF n % 2 = 1 THEN Rat(t[(n + 1) \div 2], 1)
        ELSE Rat(t[n \div 2] + t[n \div 2 + 1], 2)

\* ------------------------------------------------------------------ sampler
\* The dict returned when no probe succeeded.
SentinelStats ==
    [avg |-> Inf, min |-> Inf, max |-> Inf, median |-> Inf,
     success_rate |-> <<0, 1>>]

\* As FaultStats, with zeros in place of the infinite values.
FaultStatsZeros ==
    [avg |-> <<0, 1>>, min |-> <<0, 1>>, max |-> <<0, 1>>, median |-> <<0, 1>>,
     success_rate |-> <<0, 1>>]

\* The dict run_speed_test stores for a resolver whose task raised.
FaultStats ==
    [avg |-> Inf, min |-> Inf, max |-> Inf, median |-> Inf,
     success_rate |-> <<0, 1>>]

\* The tail of test_multiple_queries / test_server_on_domains: the stats of
\* the collected times, for the requested count.
StatsOf(ts, count) ==
    IF ts = <<>> THEN SentinelStats
    ELSE [avg |-> Mean(ts),
          min |-> Rat(MinSeq(ts), 1),
          max |-> Rat(MaxSeq(ts), 1),
          median |-> Median(ts),
          success_rate |-> Rat(100 * Len(ts), count)]

\* As SamplerRaises, for a division evaluated whatever the list holds.
DividesAlways(ts, count) == count = 0

\* Whether the tail of the sampler raises: len(results) / num_queries is
\* evaluated only past the "if not results" return, and raises
\* ZeroDivisionError for a count of 0.
SamplerRaises(ts, count) == ts # <<>> /\ count = 0

\* Python's seq[:count]: the number of elements of the slice.
SliceLen(n, count) ==
    IF count >= 0 THEN (IF count < n THEN count ELSE n)
    ELSE (IF n + count > 0 THEN n + count ELSE 0)

\* Whether the variant's encoder builds a query for the domain.
\* udp: create_dns_query packs each label length into one byte, and
\* struct.pack('!B', n) raises struct.error for n > 255.  doh:
\* build_dns_query hands the name to dns.message.make_query, which raises
\* for an empty label and for a label longer than 63 bytes.
CanEncode(v, d) ==
    IF v = "udp" THEN \A i \in 1..Len(d) : d[i] <= 255
    ELSE \A i \in 1..Len(d) : d[i] >= 1 /\ d[i] <= 63

\* -------------------------------------------------------------------- codec
\* str.encode() of one code point below U+0800: one byte for ASCII, two
\* bytes otherwise.
Utf8(c) == IF c < 128 THEN <<c>> ELSE <<192 + (c \div 64), 128 + (c % 64)>>

\* part.encode(): the code points' encodings, one after the other (computed
\* by halves).
RECURSIVE EncodeStr(_)
EncodeStr(part) ==
    IF part = <<>> THEN <<>>
    ELSE IF Len(part) = 1 THEN Utf8(part[1])
    ELSE LET h == Len(part) \div 2
         IN  EncodeStr(SubSeq(part, 1, h)) \o EncodeStr(SubSeq(part, h + 1, Len(part)))

\* domain.split('.'): the parts between the dots (code point 46); a string
\* without a dot, the empty one too, is its own single part.
RECURSIVE SplitDots(_)
SplitDots(str) ==
    IF \A i \in 1..Len(str) : str[i] # 46 THEN <<str>>
    ELSE LET i == CHOOSE k \in 1..Len(str) :
                      str[k] = 46 /\ \A j \in 1..(k - 1) : str[j] # 46
         IN  <<SubSeq(str, 1, i - 1)>> \o SplitDots(SubSeq(str, i + 1, Len(str)))

\* struct.pack('!H', n)
PackH(n) == <<n \div 256, n % 256>>

\* struct.pack('!HHHHHH', 0x1234, 0x0100, 1, 0, 0, 0)
Header ==
    PackH(4660) \o PackH(256) \o PackH(1) \o PackH(0) \o PackH(0) \o PackH(0)

\* The loop over the parts: struct.pack('!B', len(part)) + part.encode(),
\* where len(part) counts code points.
RECURSIVE PackParts(_)
PackParts(parts) ==
    IF parts = <<>> THEN <<>>
    ELSE <<Len(Head(parts))>> \o EncodeStr(Head(parts)) \o PackParts(Tail(parts))

NoWire == [state |-> "none", data |-> <<>>]

\* create_dns_query: struct.pack('!B', n) raises struct.error unless
\* 0 <= n <= 255; otherwise the header, the packed parts, the zero byte, and
\* type 1 and class 1.
CreateDnsQuery(str) ==
    LET parts == SplitDots(str)
    IN  IF \E i \in 1..Len(parts) : Len(parts[i]) > 255
        THEN [state |-> "struct.error", data |-> <<>>]
        ELSE [state |-> "bytes",
              data |-> Header \o PackParts(parts) \o <<0>> \o PackH(1) \o PackH(1)]

\* -------------------------------------------------------------------- state
VARIABLES
    variant,       \* which tester runs: "udp" (dns_ipv4.py) or "doh" (doh_ipv4.py)
    num_queries,   \* num_queries / domain_count
    max_workers,   \* max_workers of the ThreadPoolExecutor
    test_domains,  \* self.test_domains / self.domains
    st,            \* per resolver, its task: "queued", "running", "done", "fault"
    pos,           \* per resolver, the number of domains its loop has probed
    times,         \* per resolver, the local list results / times
    future,        \* per resolver, the value its future holds (<<>>: none)
    net,           \* per resolver and domain position, what the probe met
                   \* (<<>>: not probed yet; Inf: no answer; <<t, 1>>: t ms)
    unclosed,      \* sockets a returned probe opened and never closed
    probed,        \* per resolver, the list positions its sampler handed
                   \* to the probe, in call order
    order,         \* the resolvers in the order their tasks ended
    early,         \* the futures that were finished when as_completed began
    ready,         \* the finished futures as_completed has yet to yield, in
                   \* the order it yields them
    collected,     \* the futures as_completed has yielded
    progress,      \* the lines of the live display: <<name, kind>>
    results,       \* the result mapping, in insertion order: <<name, stats>>
    pc,            \* the main thread: "submit" (tasks submitted, loop not
                   \* entered), "collect", "unwinding", "returned", "exit"
    interrupted,   \* KeyboardInterrupt was raised in the main thread
    report,        \* what main printed last: "none", "summary", "abort", "traceback"
    ranked,        \* sorted_results of print_summary
    shown,         \* the rows of the printed table
    best,          \* the entry printed as fastest (<<>>: none)
    run,           \* 1: first invocation, 2: the repeated one
    baseline,      \* the first invocation's max_workers and result mapping
    domain,        \* the argument of create_dns_query: a string, as its
                   \* sequence of code points
    wire           \* what create_dns_query(domain) gave: no call yet, the
                   \* bytes it returned, or the exception it raised

vars ==
    <<variant, num_queries, max_workers, test_domains, st, pos, times, future,
      net, unclosed, collected, results, pc, interrupted, report, ranked,
      shown, best, run, baseline, domain, wire, probed, order, early, ready,
      progress>>

config == <<variant, num_queries, test_domains, domain, wire>>
tasks == <<st, pos, times, future, net, unclosed, probed, order>>
stream == <<early, ready, progress>>
summary == <<report, ranked, shown, best>>

RECURSIVE SeqsUpTo(_, _)
SeqsUpTo(S, n) ==
    IF n = 0 THEN {<<>>}
    ELSE LET shorter == SeqsUpTo(S, n - 1)
         IN  shorter \cup {Append(s, x) : s \in shorter, x \in S}

NoTasks ==
    /\ st = [r \in Resolvers |-> "queued"]
    /\ pos = [r \in Resolvers |-> 0]
    /\ times = [r \in Resolvers |-> <<>>]
    /\ future = [r \in Resolvers |-> <<>>]
    /\ unclosed = 0
    /\ collected = {}
    /\ probed = [r \in Resolvers |-> <<>>]
    /\ order = <<>>
    /\ early = {}
    /\ ready = <<>>
    /\ progress = <<>>

\* The state once run_speed_test / run has submitted one task per resolver.
Init ==
    /\ variant \in Variants
    /\ num_queries \in Counts
    /\ max_workers \in 1..NumResolvers
    /\ test_domains \in SeqsUpTo(DomainPool, MaxDomains)
    /\ NoTasks
    /\ net = [r \in Resolvers |-> [i \in 1..MaxDomains |-> <<>>]]
    /\ results = <<>>
    /\ pc = "submit"
    /\ interrupted = FALSE
    /\ report = "none"
    /\ ranked = <<>>
    /\ shown = <<>>
    /\ best = <<>>
    /\ run = 1
    /\ baseline = <<>>
    /\ domain = <<>>
    /\ wire = NoWire

\* ----------------------------------------------------------- worker threads
Running == {r \in Resolvers : st[r] = "running"}
Queued == {r \in Resolvers : st[r] = "queued"}
Finished == {r \in Resolvers : st[r] \in {"done", "fault"}}

\* As WorkerFree, for a pool that starts a thread per submitted work item.
WorkerPerTask == TRUE

\* As WorkerFree, for a pool that keeps one of its max_workers threads back.
WorkerKeptBack == Cardinality(Running) < max_workers - 1

\* The pool starts a thread for a submitted work item only while it has fewer
\* than max_workers threads; each thread runs one work item at a time.
WorkerFree == Cardinality(Running) < max_workers

\* The work queue is first in, first out: submission order.
NextQueued(r) == r \in Queued /\ \A q \in Queued : r <= q

\* As TaskEnds, for a waiter that hands over the newest future first.
TaskEndsFirst(r) ==
    /\ order' = Append(order, r)
    /\ ready' = IF pc = "collect" THEN <<r>> \o ready ELSE ready

\* The future of r becomes finished: while as_completed waits, its waiter
\* notes the future, in the order the futures finish.
TaskEnds(r) ==
    /\ order' = Append(order, r)
    /\ ready' = IF pc = "collect" THEN Append(ready, r) ELSE ready

\* A worker takes the next submitted task and enters the sampler.
StartTask(r) ==
    /\ pc \in {"submit", "collect", "unwinding"}
    /\ NextQueued(r)
    /\ WorkerFree
    /\ st' = [st EXCEPT ![r] = "running"]
    /\ UNCHANGED <<config, max_workers, pos, times, future, net, unclosed,
                   probed, order, stream, collected, results, pc, interrupted,
                   summary, run, baseline>>

\* As Slice, with the domains to visit divided among the workers.
SliceDivided == SliceLen(Len(test_domains), num_queries) \div max_workers

\* The domains the sampler's loop visits: self.test_domains[:num_queries].
Slice == SliceLen(Len(test_domains), num_queries)

\* What a probe can meet on the network: an answer after t ms, or none
\* (receive timeout, socket error, HTTP error status).
Outcomes == {Rat(t, 1) : t \in Latencies} \cup {Inf}

\* As Keep, without the test: a probe that got no answer counts with the
\* 2000 ms of its timeout.
KeepEvery(ts, response_time) ==
    Append(ts, IF response_time = Inf THEN 2000 ELSE response_time[1])

\* The sampler's test on the value the probe returned.
Keep(ts, response_time) ==
    IF response_time # Inf THEN Append(ts, response_time[1]) ELSE ts

\* As TimesAfter, with one list shared by the tasks that are running.
TimesShared(r, response_time) ==
    [q \in Resolvers |->
        IF q = r \/ st[q] = "running" THEN Keep(times[q], response_time)
        ELSE times[q]]

\* The task of resolver r appends to its own list: results / times is a local
\* variable of the sampler's call.
TimesAfter(r, response_time) ==
    [times EXCEPT ![r] = Keep(@, response_time)]

\* Sockets the udp probe leaves open when it returns response_time: close()
\* is the last statement of the try block, so only the path that received a
\* datagram reaches it.  The doh probe opens no socket of its own.
LeftOpen(v, response_time) ==
    IF v = "udp" /\ response_time = Inf THEN 1 ELSE 0

\* One iteration of the sampler's loop: the probe of the next domain, whose
\* query the encoder builds, and the test on its return value.
Probe(r) ==
    /\ pc \in {"submit", "collect", "unwinding"}
    /\ st[r] = "running"
    /\ pos[r] < Slice
    /\ CanEncode(variant, test_domains[pos[r] + 1])
    /\ \E o \in Outcomes :
        /\ net[r][pos[r] + 1] \in {<<>>, o}
        /\ net' = [net EXCEPT ![r][pos[r] + 1] = o]
        /\ times' = TimesAfter(r, o)
        /\ unclosed' = unclosed + LeftOpen(variant, o)
    /\ pos' = [pos EXCEPT ![r] = @ + 1]
    /\ probed' = [probed EXCEPT ![r] = Append(@, pos[r] + 1)]
    /\ UNCHANGED <<config, max_workers, st, future, order, stream, collected,
                   results, pc, interrupted, summary, run, baseline>>

\* The encoder raises inside the probe: struct.error is no socket.error, and
\* build_dns_query is called before the try block, so the exception leaves
\* the probe and the sampler, and the future holds it.  The udp probe has
\* opened its socket by then.
ProbeRaises(r) ==
    /\ pc \in {"submit", "collect", "unwinding"}
    /\ st[r] = "running"
    /\ pos[r] < Slice
    /\ ~CanEncode(variant, test_domains[pos[r] + 1])
    /\ st' = [st EXCEPT ![r] = "fault"]
    /\ unclosed' = unclosed + (IF variant = "udp" THEN 1 ELSE 0)
    /\ probed' = [probed EXCEPT ![r] = Append(@, pos[r] + 1)]
    /\ TaskEnds(r)
    /\ UNCHANGED <<config, max_workers, pos, times, future, net, early,
                   progress, collected, results, pc, interrupted, summary, run,
                   baseline>>

\* The loop is over: the sampler returns its stats and the future holds
\* them, or the division raises and the future holds the exception.
FinishTask(r) ==
    /\ pc \in {"submit", "collect", "unwinding"}
    /\ st[r] = "running"
    /\ pos[r] = Slice
    /\ IF SamplerRaises(times[r], num_queries)
       THEN /\ st' = [st EXCEPT ![r] = "fault"]
            /\ UNCHANGED future
       ELSE /\ future' = [future EXCEPT ![r] = StatsOf(times[r], num_queries)]
            /\ st' = [st EXCEPT ![r] = "done"]
    /\ TaskEnds(r)
    /\ UNCHANGED <<config, max_workers, pos, times, net, unclosed, probed,
                   early, progress, collected, results, pc, interrupted,
                   summary, run, baseline>>

\* -------------------------------------------------------------- main thread
\* As Store, with every entry filed under the same key.
StoreUnderOneKey(m, name, stats) ==
    IF m = <<>> THEN <<<<name, stats>>>>
    ELSE [i \in 1..Len(m) |-> <<m[i][1], stats>>]

\* results[name] = stats on a dict that keeps insertion order.
Store(m, name, stats) ==
    IF \E i \in 1..Len(m) : m[i][1] = name
    THEN [i \in 1..Len(m) |-> IF m[i][1] = name THEN <<name, stats>> ELSE m[i]]
    ELSE Append(m, <<name, stats>>)

\* The body of the as_completed loop for the future of resolver r:
\* future.result() returns the stats or re-raises what the task raised.  The
\* udp tester's except clause stores the all-infinite dict; the doh tester's
\* except clause only prints.
CollectInto(m, r) ==
    IF st[r] = "done" THEN Store(m, r, future[r])
    ELSE IF variant = "udp" THEN Store(m, r, FaultStats)
    ELSE m

\* The orders in which a set can be iterated.
Perms(S) ==
    {f \in [1..Cardinality(S) -> S] :
        \A i, j \in 1..Cardinality(S) : f[i] = f[j] => i = j}

\* Every task is submitted and the main thread calls as_completed, which
\* first takes the futures that are finished by then, as a set.
EnterLoop ==
    /\ pc = "submit"
    /\ pc' = "collect"
    /\ early' = Finished
    /\ ready' \in Perms(Finished)
    /\ UNCHANGED <<config, max_workers, tasks, collected, progress, results,
                   interrupted, summary, run, baseline>>

\* The line the loop body prints for the future of resolver r: the stats, the
\* timeout/failure text for an infinite avg, or the text of the except clause.
LineOf(r) ==
    IF st[r] # "done" THEN <<r, "error">>
    ELSE IF future[r].avg = Inf THEN <<r, "timeout">>
    ELSE <<r, "stats">>

\* as_completed yields the next finished future and the loop body runs.
Collect(r) ==
    /\ pc = "collect"
    /\ ready # <<>>
    /\ r = Head(ready)
    /\ ready' = Tail(ready)
    /\ results' = CollectInto(results, r)
    /\ collected' = collected \cup {r}
    /\ progress' = Append(progress, LineOf(r))
    /\ UNCHANGED <<config, max_workers, tasks, early, pc, interrupted, summary,
                   run, baseline>>

\* Every future was yielded: the with block ends (no task is left to wait
\* for) and the run returns the mapping.
Return ==
    /\ pc = "collect"
    /\ collected = Resolvers
    /\ pc' = "returned"
    /\ UNCHANGED <<config, max_workers, tasks, stream, collected, results,
                   interrupted, summary, run, baseline>>

\* The filter of print_summary.
IsValid(v, e) ==
    IF v = "udp"
    THEN e[2].avg # Inf /\ Less(<<0, 1>>, e[2].success_rate)
    ELSE e[2].avg # Inf

\* As InsertByAvg, for a sort that puts an entry before the entries of equal
\* avg.
RECURSIVE InsertBeforeTies(_, _)
InsertBeforeTies(s, e) ==
    IF s = <<>> THEN <<e>>
    ELSE IF Leq(e[2].avg, Head(s)[2].avg) THEN <<e>> \o s
    ELSE <<Head(s)>> \o InsertBeforeTies(Tail(s), e)

\* sorted(..., key=avg) is stable: an entry goes after the entries whose
\* avg is not greater.
RECURSIVE InsertByAvg(_, _)
InsertByAvg(s, e) ==
    IF s = <<>> THEN <<e>>
    ELSE IF Less(e[2].avg, Head(s)[2].avg) THEN <<e>> \o s
    ELSE <<Head(s)>> \o InsertByAvg(Tail(s), e)

RECURSIVE SortByAvg(_)
SortByAvg(s) ==
    IF s = <<>> THEN <<>>
    ELSE InsertByAvg(SortByAvg(SubSeq(s, 1, Len(s) - 1)), s[Len(s)])

\* sorted_results of print_summary.
Ranked(v, m) == SortByAvg(SelectSeq(m, LAMBDA e : IsValid(v, e)))

\* As Rows, with the cut applied by both testers.
RowsCut(v, rk) ==
    IF Len(rk) > TopN THEN SubSeq(rk, 1, TopN) ELSE rk

\* The rows of the table: the udp tester prints sorted_results[:10], the doh
\* tester prints them all.
Rows(v, rk) ==
    IF v = "udp" /\ Len(rk) > TopN THEN SubSeq(rk, 1, TopN) ELSE rk

\* main prints the summary of the returned mapping.
PrintSummary ==
    /\ pc = "returned"
    /\ ranked' = Ranked(variant, results)
    /\ shown' = Rows(variant, ranked')
    /\ best' = IF ranked' = <<>> THEN <<>> ELSE <<ranked'[1]>>
    /\ report' = "summary"
    /\ pc' = "exit"
    /\ UNCHANGED <<config, max_workers, tasks, stream, collected, results,
                   interrupted, run, baseline>>

\* KeyboardInterrupt is raised in the main thread while it is inside the
\* with block: the block's exit runs executor.shutdown(wait=True).
Interrupt ==
    /\ pc \in {"submit", "collect"}
    /\ pc' = "unwinding"
    /\ interrupted' = TRUE
    /\ UNCHANGED <<config, max_workers, tasks, stream, collected, results,
                   summary, run, baseline>>

\* shutdown(wait=True) has joined the workers, which ran every submitted
\* task to its end; the exception leaves the run, whose local mapping is
\* lost.  main of the udp tester prints the interrupt message, main of the
\* doh tester has no handler and the process ends with the traceback.
Abort ==
    /\ pc = "unwinding"
    /\ Finished = Resolvers
    /\ report' = IF variant = "udp" THEN "abort" ELSE "traceback"
    /\ pc' = "exit"
    /\ UNCHANGED <<config, max_workers, tasks, stream, collected, results,
                   interrupted, ranked, shown, best, run, baseline>>

\* The program is started again on the same configuration and network, with
\* any number of workers.
Rerun ==
    /\ pc = "exit"
    /\ report = "summary"
    /\ run = 1
    /\ run' = 2
    /\ baseline' = <<max_workers, results>>
    /\ max_workers' \in 1..NumResolvers
    /\ st' = [r \in Resolvers |-> "queued"]
    /\ pos' = [r \in Resolvers |-> 0]
    /\ times' = [r \in Resolvers |-> <<>>]
    /\ future' = [r \in Resolvers |-> <<>>]
    /\ unclosed' = 0
    /\ collected' = {}
    /\ probed' = [r \in Resolvers |-> <<>>]
    /\ order' = <<>>
    /\ early' = {}
    /\ ready' = <<>>
    /\ progress' = <<>>
    /\ results' = <<>>
    /\ pc' = "submit"
    /\ interrupted' = FALSE
    /\ report' = "none"
    /\ ranked' = <<>>
    /\ shown' = <<>>
    /\ best' = <<>>
    /\ UNCHANGED <<config, net>>

Next ==
    \/ \E r \in Resolvers : StartTask(r)
    \/ \E r \in Resolvers : Probe(r)
    \/ \E r \in Resolvers : ProbeRaises(r)
    \/ \E r \in Resolvers : FinishTask(r)
    \/ EnterLoop
    \/ \E r \in Resolvers : Collect(r)
    \/ Return
    \/ PrintSummary
    \/ Interrupt
    \/ Abort
    \/ Rerun

Spec == Init /\ [][Next]_vars

\* ----------------------------------------------------- one run, to its end
\* run_speed_test / run from the submission of the tasks to its return, with
\* no KeyboardInterrupt.  The worker threads and the main thread are threads
\* of the operating system: a step that stays possible is taken, and a probe
\* returns by its timeout at the latest.
NextRun ==
    \/ \E r \in Resolvers : StartTask(r)
    \/ \E r \in Resolvers : Probe(r)
    \/ \E r \in Resolvers : ProbeRaises(r)
    \/ \E r \in Resolvers : FinishTask(r)
    \/ EnterLoop
    \/ \E r \in Resolvers : Collect(r)
    \/ Return

Fairness ==
    /\ \A r \in Resolvers : WF_vars(StartTask(r))
    /\ \A r \in Resolvers : WF_vars(Probe(r))
    /\ \A r \in Resolvers : WF_vars(ProbeRaises(r))
    /\ \A r \in Resolvers : WF_vars(FinishTask(r))
    /\ WF_vars(EnterLoop)
    /\ \A r \in Resolvers : WF_vars(Collect(r))
    /\ WF_vars(Return)

SpecRun == Init /\ [][NextRun]_vars /\ Fairness

\* ------------------------------------------------------------------ ranker
\* print_summary as a function of the mapping it is given: the mappings drawn
\* hold up to MaxEntries resolvers, named in ascending or descending order,
\* each with the stats of a sampler that probed one domain and got no answer
\* or an answer after RankLatency ms.
MaxEntries == 11

RankLatency(i) == 10 + 5 * (i % 3)

RankStats(i) == {SentinelStats, StatsOf(<<RankLatency(i)>>, 1)}

RECURSIVE RankInputs(_)
RankInputs(n) ==
    IF n = 0 THEN {<<>>}
    ELSE LET shorter == RankInputs(n - 1)
         IN  shorter \cup
             {Append(m, <<k, x>>) :
                 m \in {t \in shorter : Len(t) = n - 1},
                 k \in {n},
                 x \in RankStats(n)}

\* The same mapping with the names n..1 instead of 1..n.
Renamed(m) == [i \in 1..Len(m) |-> <<Len(m) + 1 - m[i][1], m[i][2]>>]

InitRank ==
    /\ variant \in Variants
    /\ num_queries = 1
    /\ max_workers = 1
    /\ test_domains = <<<<3, 3>>>>
    /\ st = [r \in Resolvers |-> "done"]
    /\ pos = [r \in Resolvers |-> 0]
    /\ times = [r \in Resolvers |-> <<>>]
    /\ future = [r \in Resolvers |-> <<>>]
    /\ unclosed = 0
    /\ collected = Resolvers
    /\ probed = [r \in Resolvers |-> <<>>]
    /\ order = <<>>
    /\ early = {}
    /\ ready = <<>>
    /\ progress = <<>>
    /\ net = [r \in Resolvers |-> [i \in 1..MaxDomains |-> <<>>]]
    /\ \E m \in RankInputs(MaxEntries) : results \in {m, Renamed(m)}
    /\ pc = "returned"
    /\ interrupted = FALSE
    /\ report = "none"
    /\ ranked = <<>>
    /\ shown = <<>>
    /\ best = <<>>
    /\ run = 1
    /\ baseline = <<>>
    /\ domain = <<>>
    /\ wire = NoWire

NextRank == PrintSummary

SpecRank == InitRank /\ [][NextRank]_vars

\* ------------------------------------------------------------ codec inputs
\* create_dns_query as a function of its argument.  The strings drawn: every
\* string of up to MaxChars code points among 'a', '.' and U+00E9, and the
\* names built on a label of 63, 64, 255 or 256 letters.
MaxChars == 4

Letters(n) == [i \in 1..n |-> 97]

CodecInputs ==
    SeqsUpTo({97, 46, 233}, MaxChars)
        \cup {Letters(n) : n \in {63, 64, 255, 256}}
        \cup {Letters(n) \o <<46, 97>> : n \in {63, 64, 255, 256}}
        \cup {<<97, 46>> \o Letters(n) : n \in {63, 64, 255, 256}}

InitCodec ==
    /\ variant = "udp"
    /\ num_queries = 1
    /\ max_workers = 1
    /\ test_domains = <<>>
    /\ st = [r \in Resolvers |-> "done"]
    /\ pos = [r \in Resolvers |-> 0]
    /\ times = [r \in Resolvers |-> <<>>]
    /\ future = [r \in Resolvers |-> <<>>]
    /\ unclosed = 0
    /\ collected = Resolvers
    /\ probed = [r \in Resolvers |-> <<>>]
    /\ order = <<>>
    /\ early = {}
    /\ ready = <<>>
    /\ progress = <<>>
    /\ net = [r \in Resolvers |-> [i \in 1..MaxDomains |-> <<>>]]
    /\ results = <<>>
    /\ pc = "exit"
    /\ interrupted = FALSE
    /\ report = "none"
    /\ ranked = <<>>
    /\ shown = <<>>
    /\ best = <<>>
    /\ run = 2
    /\ baseline = <<>>
    /\ domain \in CodecInputs
    /\ wire = NoWire

\* The call create_dns_query(domain).
EncodeQuery ==
    /\ wire.state = "none"
    /\ wire' = CreateDnsQuery(domain)
    /\ UNCHANGED <<variant, num_queries, max_workers, test_domains, tasks,
                   stream, collected, results, pc, interrupted, summary, run,
                   baseline, domain>>

NextCodec == EncodeQuery

SpecCodec == InitCodec /\ [][NextCodec]_vars

\* ------------------------------------------------------------------ claims
Names(m) == {m[i][1] : i \in 1..Len(m)}
Slots(m, r) == {i \in 1..Len(m) : m[i][1] = r}
StatsIn(m, r) == m[CHOOSE i \in 1..Len(m) : m[i][1] = r][2]

\* The positions at which the network answered the probes resolver r has
\* made in this run, and the elapsed time measured there.
Answered(r) == {i \in 1..pos[r] : net[r][i] # <<>> /\ net[r][i] # Inf}
Elapsed(r, i) == net[r][i][1]
Successes(r) == Cardinality(Answered(r))

RECURSIVE SumElapsed(_, _)
SumElapsed(r, P) ==
    IF P = {} THEN 0
    ELSE LET i == CHOOSE j \in P : TRUE
         IN  Elapsed(r, i) + SumElapsed(r, P \ {i})

AllInf(x) == x.avg = Inf /\ x.min = Inf /\ x.max = Inf /\ x.median = Inf
SomeInf(x) == x.avg = Inf \/ x.min = Inf \/ x.max = Inf \/ x.median = Inf
IsZero(x) == x[1] = 0 /\ x[2] # 0
Positive(x) == Less(<<0, 1>>, x)

\* C1: when the run has returned, the mapping holds exactly one entry per
\* configured resolver, and the entry of a resolver whose task raised is the
\* sentinel (every statistic infinite, success_rate 0).
C1_FaultIsolated ==
    pc = "returned" =>
        \A r \in Resolvers :
            /\ Cardinality(Slots(results, r)) = 1
            /\ st[r] = "fault" =>
                  /\ AllInf(StatsIn(results, r))
                  /\ IsZero(StatsIn(results, r).success_rate)

\* C2: no socket opened by a probe that has returned is still open.
C2_SocketsClosed == unclosed = 0

\* C3: the success_rate a sampler returned lies in [0, 100] and equals
\* successful probes / requested sample count * 100.
C3_SuccessRate ==
    \A r \in Resolvers :
        st[r] = "done" =>
            LET x == future[r].success_rate
            IN  /\ Leq(<<0, 1>>, x)
                /\ Leq(x, <<100, 1>>)
                /\ x[1] * num_queries = 100 * Successes(r) * x[2]

IsMedianOf(m, r) ==
    LET P == Answered(r)
        n == Cardinality(P)
    IN  \E Lo \in SUBSET P :
            LET Hi == P \ Lo
            IN  /\ \A i \in Lo, j \in Hi : Elapsed(r, i) <= Elapsed(r, j)
                /\ IF n % 2 = 1
                   THEN /\ Cardinality(Lo) = (n + 1) \div 2
                        /\ \E i \in Lo :
                              /\ \A k \in Lo : Elapsed(r, k) <= Elapsed(r, i)
                              /\ m = <<Elapsed(r, i), 1>>
                   ELSE /\ Cardinality(Lo) = n \div 2
                        /\ \E i \in Lo, j \in Hi :
                              /\ \A k \in Lo : Elapsed(r, k) <= Elapsed(r, i)
                              /\ \A k \in Hi : Elapsed(r, j) <= Elapsed(r, k)
                              /\ m[2] > 0
                              /\ 2 * m[1] = (Elapsed(r, i) + Elapsed(r, j)) * m[2]

Whole(t) == <<t, 1>>

\* C5: the stats a sampler returned are those of the elapsed times of its
\* answered probes and of nothing else; the scenario's three resolvers get
\* the stated values.
C5_StatsOfSuccesses ==
    \A r \in Resolvers :
        st[r] = "done" =>
            LET P == Answered(r)
                n == Cardinality(P)
                x == future[r]
            IN  /\ n = 0 => AllInf(x) /\ IsZero(x.success_rate)
                /\ n > 0 =>
                      /\ \E i \in P : /\ x.min = Whole(Elapsed(r, i))
                                      /\ \A j \in P : Elapsed(r, i) <= Elapsed(r, j)
                      /\ \E i \in P : /\ x.max = Whole(Elapsed(r, i))
                                      /\ \A j \in P : Elapsed(r, j) <= Elapsed(r, i)
                      /\ x.avg[2] > 0
                      /\ x.avg[1] * n = SumElapsed(r, P) * x.avg[2]
                      /\ IsMedianOf(x.median, r)
                /\ (num_queries = 2 /\ pos[r] = 2) =>
                      /\ (net[r][1] = Whole(10) /\ net[r][2] = Whole(20)) =>
                            x = [avg |-> Whole(15), min |-> Whole(10),
                                 max |-> Whole(20), median |-> Whole(15),
                                 success_rate |-> Whole(100)]
                      /\ (net[r][1] = Inf /\ net[r][2] = Inf) =>
                            x = [avg |-> Inf, min |-> Inf, max |-> Inf,
                                 median |-> Inf, success_rate |-> Whole(0)]
                      /\ (net[r][1] = Whole(15) /\ net[r][2] = Inf) =>
                            x = [avg |-> Whole(15), min |-> Whole(15),
                                 max |-> Whole(15), median |-> Whole(15),
                                 success_rate |-> Whole(50)]

\* The scenario's three resolvers, two at a time: one answered in 10 and 20
\* ms, or never, and the other answered once in 15 ms and failed once.
C5_Witness ==
    /\ num_queries = 2
    /\ \A r \in Resolvers : st[r] = "done" /\ pos[r] = 2
    /\ \E a, c \in Resolvers :
          /\ net[a][1] = Whole(10) /\ net[a][2] = Whole(20)
          /\ net[c][1] = Whole(15) /\ net[c][2] = Inf
          /\ future[c].success_rate = Whole(50)

\* C6: at most max_workers sampling tasks execute at the same time, and a
\* queued task starts only from a state in which fewer than max_workers
\* tasks execute.
C6_BoundedConcurrency ==
    /\ [](Cardinality(Running) <= max_workers)
    /\ [][\A r \in Resolvers :
             (st[r] = "queued" /\ st'[r] = "running") =>
                 Cardinality(Running) < max_workers]_vars

\* max_workers tasks execute while a submitted task waits in the queue.
C6_Witness ==
    /\ Cardinality(Running) = max_workers
    /\ Queued # {}
    /\ \E r \in Running : pos[r] > 0

\* C7: on the same configuration and the same network, the repeated run
\* returns a mapping with the key set of the first run's mapping and the same
\* stats for every resolver, whatever the two numbers of workers and the
\* interleavings.
C7_SameStats ==
    (run = 2 /\ pc = "returned") =>
        /\ Len(results) = Len(baseline[2])
        /\ Names(results) = Names(baseline[2])
        /\ \A r \in Names(results) :
              StatsIn(results, r) = StatsIn(baseline[2], r)

\* A run with one worker and a run with one worker per resolver returned
\* every resolver's stats, in different insertion orders.
C7_Witness ==
    /\ run = 2
    /\ pc = "returned"
    /\ baseline[1] = 1
    /\ max_workers = NumResolvers
    /\ NumResolvers > 1
    /\ Names(results) = Resolvers
    /\ results # baseline[2]
    /\ \E r \in Resolvers : ~AllInf(StatsIn(results, r))

PlaceIn(m, name) == CHOOSE i \in 1..Len(m) : m[i][1] = name

\* C8: the ranking print_summary builds holds entries of the mapping, none of
\* them a sentinel, in non-decreasing order of avg, entries of equal avg in
\* their order in the mapping; the entry reported as best is its first.
C8_Ranking ==
    report = "summary" =>
        /\ \A i \in 1..Len(ranked) :
              /\ \E k \in 1..Len(results) : results[k] = ranked[i]
              /\ ranked[i][2].avg # Inf
              /\ ~IsZero(ranked[i][2].success_rate)
        /\ \A i, j \in 1..Len(ranked) :
              i < j =>
                 /\ Leq(ranked[i][2].avg, ranked[j][2].avg)
                 /\ ranked[i][1] # ranked[j][1]
                 /\ ranked[i][2].avg = ranked[j][2].avg =>
                       PlaceIn(results, ranked[i][1]) < PlaceIn(results, ranked[j][1])
        /\ best = IF ranked = <<>> THEN <<>> ELSE <<ranked[1]>>

\* A mapping named in descending order, with a sentinel entry, two entries of
\* equal avg and a slower entry inserted before a faster one, was ranked.
C8_Witness ==
    /\ report = "summary"
    /\ Len(results) > 1
    /\ results[1][1] > results[2][1]
    /\ \E k \in 1..Len(results) : AllInf(results[k][2])
    /\ \E i, j \in 1..Len(ranked) :
          i < j /\ ranked[i][2].avg = ranked[j][2].avg
    /\ \E i, j \in 1..Len(results) :
          /\ i < j
          /\ ~AllInf(results[i][2])
          /\ Less(results[j][2].avg, results[i][2].avg)
    /\ best # <<>>

InRows(e) == \E k \in 1..Len(shown) : shown[k] = e

\* C9 as stated: every resolver with non-sentinel stats in the mapping is a
\* row of the printed table, however many there are.
C9_AllListed ==
    report = "summary" =>
        \A i \in 1..Len(results) :
            ~AllInf(results[i][2]) => InRows(results[i])

\* C9 amended: the doh tester prints a row for every resolver whose avg is
\* finite; the udp tester prints the first TopN entries of the ranking of the
\* resolvers whose avg is finite and whose success_rate is positive, and all
\* of them when they are at most TopN.
C9_TopRows ==
    report = "summary" =>
        /\ variant = "doh" =>
              \A i \in 1..Len(results) :
                  results[i][2].avg # Inf => InRows(results[i])
        /\ variant = "udp" =>
              LET valid == {i \in 1..Len(results) :
                               /\ results[i][2].avg # Inf
                               /\ Positive(results[i][2].success_rate)}
                  n == Cardinality(valid)
              IN  /\ Len(ranked) = n
                  /\ \A i \in valid :
                        \E k \in 1..Len(ranked) : ranked[k] = results[i]
                  /\ Len(shown) = IF n > TopN THEN TopN ELSE n
                  /\ shown = SubSeq(ranked, 1, Len(shown))

\* The udp tester ranked more than TopN resolvers and printed TopN rows.
C9_Witness ==
    /\ report = "summary"
    /\ variant = "udp"
    /\ Len(ranked) > TopN
    /\ Len(shown) = TopN

\* C10: a run interrupted by the user ends with the summary of the resolvers
\* collected before the interrupt.
C10_PartialSummary ==
    (interrupted /\ pc = "exit") =>
        /\ report = "summary"
        /\ ranked = Ranked(variant, results)

\* The byte length of each label of the domain.
LabelBytes(str) ==
    [i \in 1..Len(SplitDots(str)) |-> Len(EncodeStr(SplitDots(str)[i]))]

\* C11: create_dns_query fails and returns no bytes when the domain is empty
\* or one of its labels is longer than 63 bytes.
C11_RejectsBadNames ==
    wire.state # "none" =>
        ((domain = <<>> \/ \E i \in 1..Len(LabelBytes(domain)) :
                               LabelBytes(domain)[i] > 63)
            => wire.state # "bytes")

\* Where reading length-prefixed labels from byte i of b meets the first zero
\* length byte (0: the bytes end before one is met).
RECURSIVE ZeroAt(_, _)
ZeroAt(b, i) ==
    IF i > Len(b) THEN 0
    ELSE IF b[i] = 0 THEN i
    ELSE ZeroAt(b, i + b[i] + 1)

\* The labels read that way, when the reading meets a zero length byte.
RECURSIVE ReadLabels(_, _)
ReadLabels(b, i) ==
    IF b[i] = 0 THEN <<>>
    ELSE <<SubSeq(b, i + 1, i + b[i])>> \o ReadLabels(b, i + b[i] + 1)

\* C12: the bytes create_dns_query returns start with the fixed 12-byte
\* header; the length-prefixed labels read from byte 13 up to the first zero
\* length byte are the labels of the domain; the four bytes after that zero
\* are type 1 and class 1 and end the message.
C12_RoundTrip ==
    wire.state = "bytes" =>
        LET b == wire.data
            z == ZeroAt(b, 13)
        IN  /\ Len(b) >= 12
            /\ SubSeq(b, 1, 12) = <<18, 52, 1, 0, 0, 1, 0, 0, 0, 0, 0, 0>>
            /\ z > 0
            /\ ReadLabels(b, 13) =
                  [i \in 1..Len(SplitDots(domain)) |->
                      EncodeStr(SplitDots(domain)[i])]
            /\ Len(b) = z + 4
            /\ SubSeq(b, z + 1, z + 4) = <<0, 1, 0, 1>>

\* C13: a domain whose query cannot be encoded costs one failed probe: no
\* task ends with the exception, and a task that has ended went through every
\* domain of its slice.
C13_EncodingRecovered ==
    \A r \in Resolvers :
        /\ st[r] # "fault"
        /\ st[r] = "done" => pos[r] = Slice

\* C14: with an empty domain list or a count of 0, no task issues a probe or
\* ends with an exception, and the value every finished task returned, and
\* every entry of the mapping, is the sentinel with success_rate 0.
C14_EmptySampling ==
    (test_domains = <<>> \/ num_queries = 0) =>
        /\ \A r \in Resolvers :
            /\ pos[r] = 0
            /\ times[r] = <<>>
            /\ st[r] # "fault"
            /\ st[r] = "done" =>
                  future[r] = SentinelStats /\ future[r].success_rate = <<0, 1>>
        /\ unclosed = 0
        /\ \A i \in 1..Len(results) : results[i][2] = SentinelStats

\* A run over a non-empty list with a count of 0 has returned its mapping.
C14_Witness ==
    /\ num_queries = 0
    /\ test_domains # <<>>
    /\ pc = "returned"
    /\ Len(results) = NumResolvers

\* The number of leading domains the claim has a sampler probe: the count,
\* or the length of the list when it is shorter.
FirstCount ==
    IF num_queries < 0 THEN 0
    ELSE IF num_queries < Len(test_domains) THEN num_queries
    ELSE Len(test_domains)

\* C15: the positions a sampler has handed to the probe are 1, 2, 3, ... in
\* list order, each once, never past the first sample_count domains, and a
\* task that has ended has probed every one of them.
C15_ProbesInListOrder ==
    \A r \in Resolvers :
        /\ probed[r] = [i \in 1..Len(probed[r]) |-> i]
        /\ Len(probed[r]) <= FirstCount
        /\ st[r] \in {"done", "fault"} => Len(probed[r]) = FirstCount

\* C16: within a run, every step that changes the mapping is a step of the
\* collecting loop alone (no task changes state in it), for a resolver whose
\* task has ended and that the mapping does not hold yet, and it appends
\* that resolver's entry, leaving the entries written before as they were.
C16_SingleWriter ==
    [][(results' # results /\ run' = run) =>
          /\ pc = "collect"
          /\ <<st, pos, times, future, probed, order>>'
                = <<st, pos, times, future, probed, order>>
          /\ Len(results') = Len(results) + 1
          /\ SubSeq(results', 1, Len(results)) = results
          /\ results'[Len(results')][1] \in Finished \ Names(results)]_vars

\* The run returned a mapping whose first entry is not the first resolver's:
\* both resolvers were written, in the order the futures were yielded.
C16_Witness ==
    /\ pc = "returned"
    /\ Len(results) = NumResolvers
    /\ results[1][1] # 1

\* The lines of the live display that name resolver r.
LinesOf(r) == {i \in 1..Len(progress) : progress[i][1] = r}

\* The place of resolver r in the order the tasks ended.
EndedAt(r) == CHOOSE i \in 1..Len(order) : order[i] = r

\* What C18 says of each line, whatever the order of the lines: a resolver
\* has at most one line, printed after its task ended; once the run has
\* returned every resolver has its line; a task that returned all-infinite
\* stats has the timeout line, is in the mapping, and is absent from the
\* ranked table; the entry of a task that returned is the value its future
\* holds.
LinesSound ==
    /\ \A r \in Resolvers : Cardinality(LinesOf(r)) <= 1
    /\ \A i \in 1..Len(progress) : progress[i][1] \in Finished
    /\ pc = "returned" =>
          \A r \in Resolvers : Cardinality(LinesOf(r)) = 1
    /\ \A i \in 1..Len(progress) :
          LET r == progress[i][1]
          IN  /\ progress[i][2] = "timeout" <=>
                    (st[r] = "done" /\ future[r].avg = Inf)
              /\ progress[i][2] = "timeout" =>
                    /\ r \in Names(results)
                    /\ \A k \in 1..Len(ranked) : ranked[k][1] # r
              /\ st[r] = "done" =>
                    /\ r \in Names(results)
                    /\ StatsIn(results, r) = future[r]

\* C18 as stated: the lines are sound and stand in the order in which the
\* tasks ended.
C18_CompletionOrder ==
    /\ LinesSound
    /\ \A i \in 1..Len(progress) : progress[i][1] = order[i]

\* C18 amended: the lines are sound; the lines of the futures that were
\* finished when the loop began come first, in any order, and the lines of
\* the others follow in the order in which their tasks ended.
C18_YieldOrder ==
    /\ LinesSound
    /\ \A i, j \in 1..Len(progress) :
          i < j =>
              /\ progress[j][1] \in early => progress[i][1] \in early
              /\ (progress[i][1] \notin early /\ progress[j][1] \notin early)
                    => EndedAt(progress[i][1]) < EndedAt(progress[j][1])

\* The run returned after both tasks ended while the loop was waiting, the
\* second resolver's first, and one of them got no answer at all.
C18_Witness ==
    /\ pc = "returned"
    /\ early = {}
    /\ Len(progress) = NumResolvers
    /\ progress[1][1] = 2
    /\ \E i \in 1..Len(progress) : progress[i][2] = "timeout"
    /\ \E i \in 1..Len(progress) : progress[i][2] = "stats"

\* C17: with every probe returning, for every max_workers of at least 1 the
\* run returns; every queued task is started, every started task ends, and
\* the run has returned only when every task has ended.
C17_Terminates ==
    /\ <>(pc = "returned")
    /\ \A r \in Resolvers : (st[r] = "queued") ~> (st[r] # "queued")
    /\ \A r \in Resolvers : (st[r] = "running") ~> (st[r] \in {"done", "fault"})
    /\ [](pc = "returned" => Finished = Resolvers)

\* A run with a single worker has returned, after a probe that got no answer.
C17_Witness ==
    /\ pc = "returned"
    /\ max_workers = 1
    /\ Finished = Resolvers
    /\ \E r \in Resolvers : pos[r] > 0 /\ net[r][1] = Inf

====
